---- MODULE Spec2Model ----
(***************************************************************************)
(* Cache-aside router and asynchronous job orchestration of the Daily      *)
(* Office PDF service: the router Lambda (aws/lambda_router/handler.py),   *)
(* the generator Lambda (aws/lambda_generator/handler.py) and the S3       *)
(* bucket through which they coordinate.                                   *)
(*                                                                         *)
(* Query-string values are sequences of one-character strings, so that     *)
(* parsing (int, strptime, lower) and formatting (f-strings) are computed  *)
(* and not assumed.  An absent query parameter and an empty one are both   *)
(* the empty sequence: every use in the code is a truthiness test or a     *)
(* .get with a default that behaves the same for the two.                  *)
(***************************************************************************)
EXTENDS Integers, Sequences, FiniteSets, TLC

(***************************************************************************)
(* Bounds of the model.                                                    *)
(***************************************************************************)
\* Router requests received in one behaviour.
MaxRequests == 2
\* Times the wall clock moves to the next day in one behaviour.
MaxTicks == 1

(***************************************************************************)
(* Strings.                                                                *)
(***************************************************************************)
DigitChars == <<"0", "1", "2", "3", "4", "5", "6", "7", "8", "9">>

IsDigit(c) == \E i \in 1..10 : DigitChars[i] = c

DigitVal(c) == (CHOOSE i \in 1..10 : DigitChars[i] = c) - 1

\* "".join(chars): the TLA+ string spelled by a sequence of characters.
RECURSIVE Str(_)
Str(cs) ==
    IF cs = <<>> THEN "" ELSE Head(cs) \o Str(Tail(cs))

UpperChars == <<"A", "B", "C", "D", "E", "F", "G", "H", "I", "J", "K", "L", "M",
                "N", "O", "P", "Q", "R", "S", "T", "U", "V", "W", "X", "Y", "Z">>

LowerChars == <<"a", "b", "c", "d", "e", "f", "g", "h", "i", "j", "k", "l", "m",
                "n", "o", "p", "q", "r", "s", "t", "u", "v", "w", "x", "y", "z">>

LowerChar(c) ==
    IF \E i \in 1..26 : UpperChars[i] = c
    THEN LowerChars[CHOOSE i \in 1..26 : UpperChars[i] = c]
    ELSE c

\* str.lower()
Lower(cs) == [i \in DOMAIN cs |-> LowerChar(cs[i])]

\* str(n) for an integer n.
RECURSIVE NatToStr(_)
NatToStr(n) ==
    IF n < 10 THEN DigitChars[n + 1]
    ELSE NatToStr(n \div 10) \o DigitChars[(n % 10) + 1]

IntToStr(n) == IF n < 0 THEN "-" \o NatToStr(0 - n) ELSE NatToStr(n)

\* f"{n:02d}"
Format02d(n) ==
    IF n < 0 THEN (IF n > -10 THEN "-" \o NatToStr(0 - n) ELSE IntToStr(n))
    ELSE IF n < 10 THEN "0" \o NatToStr(n)
    ELSE NatToStr(n)

RECURSIVE DigitsVal(_)
DigitsVal(cs) ==
    IF cs = <<>> THEN 0
    ELSE 10 * DigitsVal(SubSeq(cs, 1, Len(cs) - 1)) + DigitVal(cs[Len(cs)])

AllDigits(cs) == cs # <<>> /\ \A i \in DOMAIN cs : IsDigit(cs[i])

\* int(s): ok is FALSE for ValueError.  An optional sign, then decimal
\* digits (surrounding blanks and digit-group underscores are left out).
ParseInt(cs) ==
    IF cs # <<>> /\ cs[1] \in {"-", "+"}
    THEN IF AllDigits(Tail(cs))
         THEN [ok |-> TRUE,
               v |-> IF cs[1] = "-" THEN 0 - DigitsVal(Tail(cs)) ELSE DigitsVal(Tail(cs))]
         ELSE [ok |-> FALSE, v |-> 0]
    ELSE IF AllDigits(cs) THEN [ok |-> TRUE, v |-> DigitsVal(cs)]
    ELSE [ok |-> FALSE, v |-> 0]

\* value.lower() in ['true', '1', 'yes'], with 'false' for an absent value.
Flag(cs) == Str(Lower(cs)) \in {"true", "1", "yes"}

(***************************************************************************)
(* Dates.                                                                  *)
(***************************************************************************)
IsLeap(y) == (y % 4 = 0 /\ y % 100 # 0) \/ y % 400 = 0

DaysIn(y, m) ==
    IF m = 2 THEN (IF IsLeap(y) THEN 29 ELSE 28)
    ELSE IF m \in {4, 6, 9, 11} THEN 30 ELSE 31

\* The positions of "-" in a string.
Dashes(cs) == {i \in DOMAIN cs : cs[i] = "-"}

NoDate == [y |-> 0, m |-> 0, d |-> 0]

\* datetime.strptime(s, "%Y-%m-%d").date(): ok is FALSE for ValueError.
\* %Y is four digits, %m and %d one or two digits.
Strptime(cs) ==
    IF Cardinality(Dashes(cs)) # 2 THEN [ok |-> FALSE, v |-> NoDate]
    ELSE LET dashes == Dashes(cs)
             i == CHOOSE k \in dashes : \A l \in dashes : k <= l
             j == CHOOSE k \in dashes : \A l \in dashes : l <= k
             ys == SubSeq(cs, 1, i - 1)
             ms == SubSeq(cs, i + 1, j - 1)
             ds == SubSeq(cs, j + 1, Len(cs))
         IN  IF /\ AllDigits(ys) /\ Len(ys) = 4
                /\ AllDigits(ms) /\ Len(ms) \in {1, 2}
                /\ AllDigits(ds) /\ Len(ds) \in {1, 2}
                /\ DigitsVal(ys) >= 1
                /\ DigitsVal(ms) \in 1..12
                /\ DigitsVal(ds) \in 1..DaysIn(DigitsVal(ys), DigitsVal(ms))
             THEN [ok |-> TRUE,
                   v |-> [y |-> DigitsVal(ys), m |-> DigitsVal(ms), d |-> DigitsVal(ds)]]
             ELSE [ok |-> FALSE, v |-> NoDate]

\* date.strftime('%Y-%m-%d')
Strftime(dt) ==
    (IF dt.y < 10 THEN "000" ELSE IF dt.y < 100 THEN "00" ELSE IF dt.y < 1000 THEN "0" ELSE "")
        \o NatToStr(dt.y) \o "-" \o Format02d(dt.m) \o "-" \o Format02d(dt.d)

\* The day after dt.
NextDay(dt) ==
    IF dt.d < DaysIn(dt.y, dt.m) THEN [dt EXCEPT !.d = dt.d + 1]
    ELSE IF dt.m < 12 THEN [y |-> dt.y, m |-> dt.m + 1, d |-> 1]
    ELSE [y |-> dt.y + 1, m |-> 1, d |-> 1]

(***************************************************************************)
(* Python values.                                                          *)
(***************************************************************************)
\* An Optional[int]: None, or the integer v.
PyNone == [none |-> TRUE, v |-> 0]

PyInt(n) == [none |-> FALSE, v |-> n]

\* bool(x) for an Optional[int]: None and 0 are false.
Truthy(x) == ~x.none /\ x.v # 0

\* Optional[bytes]: None, or the bytes of a PDF.  A PDF is told by the
\* request whose generator invocation produced it (by), by what the
\* generator rendered (of), and by its length.
NoneBytes == [none |-> TRUE, by |-> 0, of |-> "", len |-> 0]

Pdf(r, what) == [none |-> FALSE, by |-> r, of |-> what, len |-> 1]

\* b'': the bytes of an output file that holds nothing.
EmptyPdf(r, what) == [none |-> FALSE, by |-> r, of |-> what, len |-> 0]

\* bool(b) for Optional[bytes]: None and b'' are false.
TruthyBytes(b) == ~b.none /\ b.len > 0

PrayerTypes == {"morning", "evening", "midday", "compline"}

(***************************************************************************)
(* Router: key derivation and request validation.                          *)
(***************************************************************************)
\* generate_cache_key; now is the value of datetime.now() at the call.
generate_cache_key(prayer_type, date_string, remarkable, is_monthly, year, month, psalm_cycle, now) ==
    LET page_size == IF remarkable THEN "remarkable" ELSE "letter"
    IN  IF is_monthly
        THEN LET y == IF ~Truthy(year) THEN now.y ELSE year.v
                 m == IF ~Truthy(month) THEN now.m ELSE month.v
                 stem == "prayers/monthly/" \o prayer_type \o "/" \o IntToStr(y) \o "/"
                             \o Format02d(m) \o "/" \o page_size
             IN  IF Truthy(psalm_cycle)
                 THEN stem \o "/cycle" \o IntToStr(psalm_cycle.v) \o ".pdf"
                 ELSE stem \o "/default.pdf"
        ELSE LET ds == IF date_string = <<>> THEN Strftime(now) ELSE Str(date_string)
             IN  "prayers/daily/" \o prayer_type \o "/" \o ds \o "/" \o page_size \o ".pdf"

\* The router's lambda_handler from the query parameters to the cache key:
\* statusCode 400 with the error of the first failed validation, or
\* statusCode 0 (no response yet) with the locals of the handler.
RouterParse(params, now) ==
    LET prayer_type == Str(Lower(params.type))
        remarkable == Flag(params.remarkable)
        bypass_cache == Flag(params.nocache)
        is_monthly == Flag(params.monthly)
        yr == ParseInt(params.year)
        mo == ParseInt(params.month)
        pc == ParseInt(params.psalm_cycle)
        year == IF ~is_monthly THEN PyNone
                ELSE IF params.year = <<>> THEN PyInt(now.y) ELSE PyInt(yr.v)
        month == IF ~is_monthly THEN PyNone
                 ELSE IF params.month = <<>> THEN PyInt(now.m) ELSE PyInt(mo.v)
        psalm_cycle == IF is_monthly /\ params.psalm_cycle # <<>> THEN PyInt(pc.v) ELSE PyNone
        error ==
            IF prayer_type \notin PrayerTypes
            THEN "Invalid or missing prayer type. Must be one of: morning, evening, midday, compline"
            ELSE IF is_monthly /\ params.year # <<>> /\ ~yr.ok
            THEN "Invalid year format. Expected YYYY"
            ELSE IF is_monthly /\ params.month # <<>> /\ (~mo.ok \/ mo.v \notin 1..12)
            THEN "Invalid month. Must be 1-12"
            ELSE IF is_monthly /\ params.psalm_cycle # <<>> /\ (~pc.ok \/ pc.v \notin {30, 60})
            THEN "Invalid psalm_cycle. Must be 30 or 60"
            ELSE ""
    IN  [statusCode |-> IF error = "" THEN 0 ELSE 400,
         error |-> error,
         prayer_type |-> prayer_type,
         remarkable |-> remarkable,
         bypass_cache |-> bypass_cache,
         is_monthly |-> is_monthly,
         year |-> year,
         month |-> month,
         psalm_cycle |-> psalm_cycle,
         cache_key |-> IF error # "" THEN ""
                       ELSE generate_cache_key(prayer_type, params.date, remarkable,
                                               is_monthly, year, month, psalm_cycle, now)]

(***************************************************************************)
(* Generator: what lambda_handler does before it renders.                  *)
(***************************************************************************)
\* parse_date; today is date.today() at the call.
parse_date(date_string, today) ==
    IF date_string = <<>> THEN [ok |-> TRUE, v |-> today] ELSE Strptime(date_string)

\* The generator's lambda_handler up to the rendering: outcome "return400" (a
\* validation response returned from inside the try), "ValueError" (raised
\* by parse_date) or "render", with what is to be rendered.
GeneratorParse(params, today) ==
    LET prayer_type == Str(Lower(params.type))
        is_monthly == Flag(params.monthly)
        page_size == IF Flag(params.remarkable) THEN "remarkable" ELSE "letter"
        yr == ParseInt(params.year)
        mo == ParseInt(params.month)
        pc == ParseInt(params.psalm_cycle)
        year == IF params.year = <<>> THEN today.y ELSE yr.v
        month == IF params.month = <<>> THEN today.m ELSE mo.v
        pd == parse_date(params.date, today)
        error ==
            IF prayer_type \notin PrayerTypes
            THEN "Invalid or missing prayer type. Must be one of: morning, evening, midday, compline"
            ELSE IF is_monthly /\ params.year # <<>> /\ ~yr.ok
            THEN "Invalid year format. Expected YYYY"
            ELSE IF is_monthly /\ params.month # <<>> /\ (~mo.ok \/ mo.v \notin 1..12)
            THEN "Invalid month. Must be 1-12"
            ELSE IF is_monthly /\ params.psalm_cycle # <<>> /\ (~pc.ok \/ pc.v \notin {30, 60})
            THEN "Invalid psalm_cycle. Must be 30 or 60"
            ELSE ""
    IN  IF error # ""
        THEN [outcome |-> "return400", error |-> error, what |-> ""]
        ELSE IF is_monthly
        THEN [outcome |-> "render", error |-> "",
              what |-> "monthly/" \o prayer_type \o "/" \o IntToStr(year) \o "/"
                          \o IntToStr(month) \o "/" \o page_size \o "/"
                          \o (IF params.psalm_cycle # <<>> THEN IntToStr(pc.v) ELSE "None")]
        ELSE IF ~pd.ok
        THEN [outcome |-> "ValueError",
              error |-> "Invalid date format: " \o Str(params.date) \o ". Expected YYYY-MM-DD",
              what |-> ""]
        ELSE [outcome |-> "render", error |-> "",
              what |-> "daily/" \o prayer_type \o "/" \o Strftime(pd.v) \o "/" \o page_size]

(***************************************************************************)
(* The requests the model sends.                                           *)
(***************************************************************************)
Query(type, monthly, date, year, month, psalm_cycle, nocache) ==
    [type |-> type, monthly |-> monthly, date |-> date, year |-> year, month |-> month,
     psalm_cycle |-> psalm_cycle, remarkable |-> <<>>, nocache |-> nocache]

s_morning == <<"m", "o", "r", "n", "i", "n", "g">>

s_evening == <<"E", "v", "e", "n", "i", "n", "g">>

s_xyz == <<"x", "y", "z">>

s_true == <<"t", "r", "u", "e">>

s_date == <<"2", "0", "2", "5", "-", "1", "1", "-", "3", "0">>

s_date2 == <<"2", "0", "2", "5", "-", "1", "2", "-", "0", "1">>

s_baddate == <<"2", "0", "2", "5", "-", "1", "3", "-", "4", "5">>

s_2025 == <<"2", "0", "2", "5">>

s_abc == <<"a", "b", "c">>

s_12 == <<"1", "2">>

s_13 == <<"1", "3">>

s_45 == <<"4", "5">>

\* Query strings of GET /prayer: daily and monthly, valid and invalid, with
\* and without nocache.
Queries ==
    { Query(s_morning, <<>>, s_date, <<>>, <<>>, <<>>, <<>>),
      Query(s_morning, <<>>, s_date, <<>>, <<>>, <<>>, s_true),
      Query(s_morning, <<>>, s_baddate, <<>>, <<>>, <<>>, <<>>),
      Query(s_xyz, <<>>, s_date, <<>>, <<>>, <<>>, <<>>),
      Query(s_evening, s_true, <<>>, s_2025, s_12, <<>>, <<>>),
      Query(s_evening, s_true, <<>>, s_2025, s_12, <<>>, s_true),
      Query(s_evening, s_true, <<>>, s_abc, s_12, <<>>, <<>>),
      Query(s_evening, s_true, <<>>, s_2025, s_13, <<>>, <<>>),
      Query(s_evening, s_true, <<>>, s_2025, s_12, s_45, <<>>) }

\* The day on which the service starts.
StartDay == [y |-> 2025, m |-> 11, d |-> 30]

\* The days the clock shows in a behaviour.
RECURSIVE DayAfter(_)
DayAfter(n) == IF n = 0 THEN StartDay ELSE NextDay(DayAfter(n - 1))

Days == {DayAfter(n) : n \in 0..MaxTicks}

\* Query strings that leave the date, or the year and the month, to the
\* clock.
ClockQueries ==
    { Query(s_morning, <<>>, <<>>, <<>>, <<>>, <<>>, <<>>),
      Query(s_evening, s_true, <<>>, <<>>, <<>>, <<>>, <<>>) }

\* The query strings of test_error_handling: no type, an unsupported type,
\* and a valid type with a date that is not a date; the last one also with
\* nocache.
ErrorQueries ==
    { Query(<<>>, <<>>, s_date, <<>>, <<>>, <<>>, <<>>),
      Query(s_xyz, <<>>, s_date, <<>>, <<>>, <<>>, <<>>),
      Query(s_morning, <<>>, s_baddate, <<>>, <<>>, <<>>, <<>>),
      Query(s_morning, <<>>, s_baddate, <<>>, <<>>, <<>>, s_true) }

AllQueries == Queries \cup ClockQueries \cup ErrorQueries

\* RouterParse and GeneratorParse, tabulated once over the queries and the
\* days of the model.
RouterParsed == [params \in AllQueries, now \in Days |-> RouterParse(params, now)]

GeneratorParsed == [params \in AllQueries, today \in Days |-> GeneratorParse(params, today)]

(***************************************************************************)
(* State.                                                                  *)
(***************************************************************************)
VARIABLES
    clock,       \* [day, ticks]: the wall clock of every Lambda
    cache,       \* S3 objects under prayers/: cache key -> bytes
    jobStatus,   \* S3 objects jobs/{job_id}/status.json: job id -> status_data
    jobResult,   \* S3 objects jobs/{job_id}/result.pdf: job id -> bytes
    nreq,        \* the number of GET /prayer requests received so far
    reqs,        \* the router invocations for GET /prayer that have not returned
    gens,        \* the asynchronous generator invocations: job id -> invocation
    lastResp,    \* the response of GET /prayer that the step just taken returned
    lastPoll,    \* the response of GET /job/{jobId} that the step just taken returned
    answered,    \* history: the job ids that a poll has answered 200 or failed
    derived,     \* two calls of generate_cache_key: arguments, clocks and keys
    client       \* DailyOfficeAPIClient: the files of .cache, and the last call

vars == <<clock, cache, jobStatus, jobResult, nreq, reqs, gens, lastResp, lastPoll, answered,
          derived, client>>

NoResp == [statusCode |-> 0, x_cache |-> "", body |-> NoneBytes, job_id |-> 0,
           status |-> "", error |-> ""]

PdfResp(pdf, x_cache) == [NoResp EXCEPT !.statusCode = 200, !.body = pdf, !.x_cache = x_cache]

ErrorResp(code, error) == [NoResp EXCEPT !.statusCode = code, !.error = error]

NoJobParams == [type |-> "", year |-> PyNone, month |-> PyNone, remarkable |-> FALSE,
                psalm_cycle |-> PyNone, cache_key |-> ""]

\* The dict {} read as status_data: no key is present.
EmptyStatus == [keys |-> {}, status |-> "", created_at |-> "", params |-> NoJobParams,
                updated_at |-> "", error |-> ""]

NoQuery == Query(<<>>, <<>>, <<>>, <<>>, <<>>, <<>>, <<>>)

\* An entry of a router invocation's trace: a call and how it ended.
Ev(op, out) == [op |-> op, out |-> out]

\* lastResp after a step in which no router invocation returns.
NoReturn == [req |-> 0, loc |-> RouterParse(NoQuery, StartDay), resp |-> NoResp, log |-> <<>>]

\* The arguments of a call of generate_cache_key.
KeyArgs(prayer_type, date_string, remarkable, is_monthly, year, month, psalm_cycle) ==
    [prayer_type |-> prayer_type, date_string |-> date_string, remarkable |-> remarkable,
     is_monthly |-> is_monthly, year |-> year, month |-> month, psalm_cycle |-> psalm_cycle]

\* derived before any call is made.
NoDerived ==
    LET none == KeyArgs("", <<>>, FALSE, FALSE, PyNone, PyNone, PyNone)
    IN  [a |-> none, b |-> none, na |-> StartDay, nb |-> StartDay, ka |-> "", kb |-> ""]

\* lastPoll after a step that is not a poll.
NoPoll == [job_id |-> 0, resp |-> NoResp, log |-> <<>>]

\* The outcome of a call of a get_* method of the API client, and the
\* client with an empty .cache directory before any call.
NoCall == [method |-> "", enable_cache |-> FALSE, cache_key |-> "", url |-> "", gets |-> 0,
           result |-> "", data |-> ""]

NoClient == [files |-> <<>>, calls |-> 0, last |-> NoCall]

Init ==
    /\ clock = [day |-> StartDay, ticks |-> 0]
    /\ cache = <<>>
    /\ jobStatus = <<>>
    /\ jobResult = <<>>
    /\ nreq = 0
    /\ reqs = <<>>
    /\ gens = <<>>
    /\ lastResp = NoReturn
    /\ lastPoll = NoPoll
    /\ answered = {}
    /\ derived = NoDerived
    /\ client = NoClient

\* s3_client.put_object(Key=k, Body=v) on one of the three key spaces.
Put(store, k, v) == [x \in DOMAIN store \cup {k} |-> IF x = k THEN v ELSE store[x]]

\* The entries of f other than the one at k.
Without(f, k) == [x \in DOMAIN f \ {k} |-> f[x]]

(***************************************************************************)
(* Router: GET /prayer.                                                    *)
(***************************************************************************)
\* A check_cache that answers a failed read with empty bytes, not None.
check_cache_empty_on_error(cache_key, readOk) ==
    IF ~readOk THEN [NoneBytes EXCEPT !.none = FALSE]
    ELSE IF cache_key \in DOMAIN cache THEN cache[cache_key] ELSE NoneBytes

\* A check_cache that never finds the object.
check_cache_never_finds(cache_key, readOk) == NoneBytes

\* check_cache: the bytes at cache_key, None for NoSuchKey and for any other
\* error of get_object (readOk = FALSE).
check_cache(cache_key, readOk) ==
    IF readOk /\ cache_key \in DOMAIN cache THEN cache[cache_key] ELSE NoneBytes

\* A store_in_cache that keeps one object for all page sizes and dates.
store_in_cache_one_key(cache_key, pdf_data, writeOk) ==
    IF writeOk THEN Put(cache, "prayers/latest.pdf", pdf_data) ELSE cache

\* store_in_cache: the cache after the call; an error of put_object is
\* swallowed and leaves the object as it was.
store_in_cache(cache_key, pdf_data, writeOk) ==
    IF writeOk THEN Put(cache, cache_key, pdf_data) ELSE cache

\* create_job: the status_data written to jobs/{job_id}/status.json.
create_job(job_params, now) ==
    [EmptyStatus EXCEPT !.keys = {"status", "created_at", "params"},
                        !.status = "pending",
                        !.created_at = Strftime(now),
                        !.params = job_params]

\* The router invocation r returns resp: it leaves reqs.
Return(r, q, resp, log) ==
    /\ reqs' = Without(reqs, r)
    /\ lastResp' = [req |-> r, loc |-> q.loc, resp |-> resp, log |-> log]

\* The router invocation r goes on at pc.
Goto(r, q, pc, log) ==
    /\ reqs' = Put(reqs, r, [q EXCEPT !.pc = pc, !.log = log])
    /\ lastResp' = NoReturn

\* A lookup that reads the cache also when nocache is set.
LookupIgnoringNocache(loc, readOk) ==
    LET pdf_data == check_cache(loc.cache_key, readOk)
    IN  [pdf_data |-> pdf_data,
         log |-> <<Ev("check_cache", IF ~readOk THEN "error"
                                     ELSE IF pdf_data.none THEN "miss" ELSE "found")>>]

\* lambda_handler: the lookup, skipped when nocache is set: pdf_data and the
\* trace of the call.
Lookup(loc, readOk) ==
    IF loc.bypass_cache THEN [pdf_data |-> NoneBytes, log |-> <<>>]
    ELSE LET pdf_data == check_cache(loc.cache_key, readOk)
         IN  [pdf_data |-> pdf_data,
              log |-> <<Ev("check_cache", IF ~readOk THEN "error"
                                          ELSE IF pdf_data.none THEN "miss" ELSE "found")>>]

\* A branch that goes on to generate whatever the lookup found.
DispatchIgnoringHit(loc, pdf_data) ==
    IF loc.is_monthly THEN "create_job" ELSE "invoke_generator"

\* A branch that sends every request without a cached PDF to the synchronous
\* path.
DispatchAlwaysSync(loc, pdf_data) ==
    IF ~pdf_data.none THEN "return" ELSE "invoke_generator"

\* lambda_handler: the branch on pdf_data and on is_monthly: the 200
\* response with the bytes found, the asynchronous path for a monthly
\* request, the synchronous path for a daily one.
Dispatch(loc, pdf_data) ==
    IF ~pdf_data.none THEN "return"
    ELSE IF loc.is_monthly THEN "create_job"
    ELSE "invoke_generator"

\* lambda_handler, from the event to the branch on pdf_data: a 400 for an
\* invalid query; else the cache key, the lookup, and the response or the
\* path that Dispatch chooses.  The job id that uuid4 gives a monthly request
\* is the number r of the request.
Receive(params, readOk) ==
    /\ nreq < MaxRequests
    /\ nreq' = nreq + 1
    /\ LET r == nreq + 1
           loc == RouterParsed[params, clock.day]
           q == [params |-> params, loc |-> loc, pc |-> "", pdf_data |-> NoneBytes,
                 cache_hit |-> FALSE, job_id |-> 0, log |-> <<>>]
           found == Lookup(loc, readOk)
           cache_hit == TruthyBytes(found.pdf_data)
           next == Dispatch(loc, found.pdf_data)
       IN  IF loc.statusCode = 400 THEN Return(r, q, ErrorResp(400, loc.error), <<>>)
           ELSE IF next = "return"
           THEN Return(r, q, PdfResp(found.pdf_data, IF cache_hit THEN "HIT" ELSE "MISS"),
                       found.log)
           ELSE Goto(r, [q EXCEPT !.pdf_data = found.pdf_data, !.cache_hit = cache_hit],
                     next, found.log)
    /\ lastPoll' = NoPoll
    /\ UNCHANGED <<clock, cache, jobStatus, jobResult, gens, answered, derived, client>>

\* A create_job that swallows the error of put_object.
CreateJobNeverRaises(writeOk) == FALSE

\* create_job: whether the call raises: an error of put_object is printed
\* and raised again.
CreateJobRaises(writeOk) == ~writeOk

\* lambda_handler: job_id = str(uuid.uuid4()); create_job(job_id, job_params).
\* When create_job raises, the handler's except clause answers 500.
CreateJob(r, writeOk) ==
    /\ reqs[r].pc = "create_job"
    /\ LET q == reqs[r]
           job_id == r
           job_params == [type |-> q.loc.prayer_type, year |-> q.loc.year,
                          month |-> q.loc.month, remarkable |-> q.loc.remarkable,
                          psalm_cycle |-> q.loc.psalm_cycle, cache_key |-> q.loc.cache_key]
       IN  /\ jobStatus' = IF writeOk THEN Put(jobStatus, job_id, create_job(job_params, clock.day))
                           ELSE jobStatus
           /\ IF ~CreateJobRaises(writeOk)
              THEN Goto(r, [q EXCEPT !.job_id = job_id], "invoke_generator_async",
                        Append(q.log, Ev("create_job", "ok")))
              ELSE Return(r, q, ErrorResp(500, "Internal server error"),
                          Append(q.log, Ev("create_job", "error")))
    /\ lastPoll' = NoPoll
    /\ UNCHANGED <<clock, cache, jobResult, nreq, gens, answered, derived, client>>

\* An invoke of type RequestResponse: the invocation has run to its end when
\* the call returns.
NewInvocationRunToEnd(r, params) ==
    [req |-> r, params |-> params, pc |-> "done", pdf_data |-> NoneBytes, error |-> ""]

\* The generator invocation that an Event invoke starts.  The event is
\* delivered once: the source configures no retry and the generator's
\* handler returns normally on every path.
NewInvocation(r, params) ==
    [req |-> r, params |-> params, pc |-> "render", pdf_data |-> NoneBytes, error |-> ""]

\* lambda_handler: invoke_generator_async(event, job_id) and the 202.  An
\* error of lambda_client.invoke is raised again and ends in the 500.
InvokeGeneratorAsync(r, invokeOk) ==
    /\ reqs[r].pc = "invoke_generator_async"
    /\ LET q == reqs[r]
       IN  /\ gens' = IF invokeOk THEN Put(gens, q.job_id, NewInvocation(r, q.params)) ELSE gens
           /\ IF invokeOk
              THEN Return(r, q, [NoResp EXCEPT !.statusCode = 202, !.status = "pending",
                                               !.job_id = q.job_id],
                          Append(q.log, Ev("invoke_generator_async", "ok")))
              ELSE Return(r, q, ErrorResp(500, "Internal server error"),
                          Append(q.log, Ev("invoke_generator_async", "error")))
    /\ lastPoll' = NoPoll
    /\ UNCHANGED <<clock, cache, jobStatus, jobResult, nreq, answered, derived, client>>

\* How a rendering ends: with the PDF, with an exception that is not a
\* ValueError (RuntimeError of pdflatex, RequestException of the API), with a
\* ValueError (the API client's "Invalid JSON response"), or with the
\* function killed before lambda_handler returns (timeout, out of memory).
Renderings == {"pdf", "Exception", "ValueError", "FunctionError"}

\* The payload of the generator to a RequestResponse invoke (no job_id in
\* the event): 400 for an invalid query or date and for a ValueError of the
\* rendering, 200 with the PDF, 500 for any other exception, and Lambda's
\* error document, which has no statusCode (0 here), for a function error.
\* The handler sends whatever pdf_file.read() gives, without a test of its
\* length: the rendering "empty" is an output file without bytes.
GeneratorResponse(r, params, today, rendering) ==
    LET g == GeneratorParsed[params, today]
    IN  IF g.outcome # "render" THEN ErrorResp(400, g.error)
        ELSE IF rendering = "pdf" THEN [NoResp EXCEPT !.statusCode = 200, !.body = Pdf(r, g.what)]
        ELSE IF rendering = "empty"
        THEN [NoResp EXCEPT !.statusCode = 200, !.body = EmptyPdf(r, g.what)]
        ELSE IF rendering = "ValueError" THEN ErrorResp(400, "Invalid JSON response")
        ELSE IF rendering = "Exception" THEN ErrorResp(500, "Internal server error")
        ELSE [NoResp EXCEPT !.error = "errorMessage"]

\* A router that answers a failed synchronous generation with the entry at
\* the key, when there is one.
InvokeGeneratorWithFallback(r, invokeOk, rendering) ==
    /\ reqs[r].pc = "invoke_generator"
    /\ LET q == reqs[r]
           generator_response == GeneratorResponse(r, q.params, clock.day, rendering)
           ev == Ev("invoke_generator", IntToStr(generator_response.statusCode))
           failed == ~invokeOk \/ generator_response.statusCode # 200
           log == Append(q.log, IF invokeOk THEN ev ELSE Ev("invoke_generator", "error"))
       IN  IF failed /\ q.loc.cache_key \in DOMAIN cache
           THEN Return(r, q, PdfResp(cache[q.loc.cache_key], "HIT"), log)
           ELSE IF ~invokeOk
           THEN Return(r, q, ErrorResp(500, "Internal server error"), log)
           ELSE IF failed
           THEN Return(r, q, generator_response, log)
           ELSE Goto(r, [q EXCEPT !.pdf_data = generator_response.body], "store_in_cache", log)
    /\ lastPoll' = NoPoll
    /\ UNCHANGED <<clock, cache, jobStatus, jobResult, nreq, gens, answered, derived, client>>

\* lambda_handler: generator_response = invoke_generator(event) and the test
\* of its statusCode.  An error of lambda_client.invoke is raised again and
\* ends in the handler's 500.
InvokeGenerator(r, invokeOk, rendering) ==
    /\ reqs[r].pc = "invoke_generator"
    /\ LET q == reqs[r]
           generator_response == GeneratorResponse(r, q.params, clock.day, rendering)
           ev == Ev("invoke_generator", IntToStr(generator_response.statusCode))
       IN  IF ~invokeOk
           THEN Return(r, q, ErrorResp(500, "Internal server error"),
                       Append(q.log, Ev("invoke_generator", "error")))
           ELSE IF generator_response.statusCode # 200
           THEN Return(r, q, generator_response, Append(q.log, ev))
           ELSE Goto(r, [q EXCEPT !.pdf_data = generator_response.body], "store_in_cache",
                     Append(q.log, ev))
    /\ lastPoll' = NoPoll
    /\ UNCHANGED <<clock, cache, jobStatus, jobResult, nreq, gens, answered, derived, client>>

\* A store_in_cache that raises the error of put_object.
StoreInCacheRaisesOnError(writeOk) == ~writeOk

\* store_in_cache: whether the call raises: an error of put_object is printed
\* and swallowed.
StoreInCacheRaises(writeOk) == FALSE

\* lambda_handler: store_in_cache(cache_key, pdf_data) and the 200 response.
\* Were store_in_cache to raise, the handler's except clause would answer 500.
StoreInCache(r, writeOk) ==
    /\ reqs[r].pc = "store_in_cache"
    /\ LET q == reqs[r]
           log == Append(q.log, IF writeOk THEN Ev("store_in_cache", "ok")
                                ELSE Ev("store_in_cache", "error"))
       IN  /\ cache' = store_in_cache(q.loc.cache_key, q.pdf_data, writeOk)
           /\ IF StoreInCacheRaises(writeOk)
              THEN Return(r, q, ErrorResp(500, "Internal server error"), log)
              ELSE Return(r, q, PdfResp(q.pdf_data, IF q.cache_hit THEN "HIT" ELSE "MISS"), log)
    /\ lastPoll' = NoPoll
    /\ UNCHANGED <<clock, jobStatus, jobResult, nreq, gens, answered, derived, client>>

(***************************************************************************)
(* Generator: the invocation of an asynchronous job.                       *)
(***************************************************************************)
\* An update_job_status that writes the status and the time only.
update_job_status_without_error(job_id, status, error, readOk, writeOk, now) ==
    LET status_data == IF readOk /\ job_id \in DOMAIN jobStatus THEN jobStatus[job_id]
                       ELSE EmptyStatus
        updated == [status_data EXCEPT !.keys = status_data.keys \cup {"status", "updated_at"},
                                       !.status = status,
                                       !.updated_at = Strftime(now)]
    IN  IF writeOk THEN Put(jobStatus, job_id, updated) ELSE jobStatus

\* update_job_status: the objects jobs/*/status.json after the call.  A
\* failed read of the old record starts from {}; a failed write is swallowed.
update_job_status(job_id, status, error, readOk, writeOk, now) ==
    LET status_data == IF readOk /\ job_id \in DOMAIN jobStatus THEN jobStatus[job_id]
                       ELSE EmptyStatus
        updated == [status_data EXCEPT
                       !.keys = status_data.keys \cup {"status", "updated_at"}
                                    \cup (IF error # "" THEN {"error"} ELSE {}),
                       !.status = status,
                       !.updated_at = Strftime(now),
                       !.error = IF error # "" THEN error ELSE status_data.error]
    IN  IF writeOk THEN Put(jobStatus, job_id, updated) ELSE jobStatus

\* A store_job_result that keeps one result.pdf for all jobs.
store_job_result_shared(job_id, pdf_data, cache_key, resultOk, cacheOk) ==
    [result |-> IF resultOk
                THEN [j \in DOMAIN jobStatus \cup DOMAIN jobResult \cup {job_id} |-> pdf_data]
                ELSE jobResult,
     cache |-> IF resultOk /\ cache_key # "" /\ cacheOk THEN Put(cache, cache_key, pdf_data)
               ELSE cache]

\* store_job_result: the objects jobs/*/result.pdf and the cache after the
\* call.  The first put_object that fails ends the function.
store_job_result(job_id, pdf_data, cache_key, resultOk, cacheOk) ==
    [result |-> IF resultOk THEN Put(jobResult, job_id, pdf_data) ELSE jobResult,
     cache |-> IF resultOk /\ cache_key # "" /\ cacheOk THEN Put(cache, cache_key, pdf_data)
               ELSE cache]

\* A store_job_result that raises the error of a put_object.
StoreJobResultRaisesOnError(resultOk, cacheOk) == ~resultOk \/ ~cacheOk

\* store_job_result: whether the call raises: an error of either put_object
\* is printed and swallowed.
StoreJobResultRaises(resultOk, cacheOk) == FALSE

\* lambda_handler of the generator for an event with a job_id, up to the PDF:
\* validation, then the rendering, which raises when renderOk is FALSE.
GenRender(j, renderOk) ==
    /\ gens[j].pc = "render"
    /\ LET g == gens[j]
           p == GeneratorParsed[g.params, clock.day]
       IN  gens' = [gens EXCEPT ![j] =
               IF p.outcome = "return400"
               THEN [g EXCEPT !.pc = "done"]
               ELSE IF p.outcome = "ValueError"
               THEN [g EXCEPT !.pc = "failed", !.error = p.error]
               ELSE IF ~renderOk
               THEN [g EXCEPT !.pc = "failed", !.error = "rendering failed"]
               ELSE IF ~Flag(g.params.monthly)
               THEN [g EXCEPT !.pc = "done"]
               ELSE [g EXCEPT !.pc = "store_job_result", !.pdf_data = Pdf(g.req, p.what)]]
    /\ lastResp' = NoReturn
    /\ lastPoll' = NoPoll
    /\ UNCHANGED <<clock, cache, jobStatus, jobResult, nreq, reqs, answered, derived, client>>

\* The cache_key that lambda_handler reads from the job's params: None (the
\* empty string here) when the read fails or the record holds no params.
JobCacheKey(j, readOk) ==
    IF readOk /\ j \in DOMAIN jobStatus /\ "params" \in jobStatus[j].keys
    THEN jobStatus[j].params.cache_key
    ELSE ""

\* A generator that announces 'completed' before it stores the result, and
\* whose store_job_result raises: the except clause then writes 'failed'.
GenStatusBeforeResult(j, readOk, resultOk, cacheOk) ==
    /\ gens[j].pc = "store_job_result"
    /\ LET g == gens[j]
           after == store_job_result(j, g.pdf_data, JobCacheKey(j, readOk), resultOk, cacheOk)
       IN  /\ jobStatus' = update_job_status(j, "completed", "", TRUE, TRUE, clock.day)
           /\ jobResult' = after.result
           /\ cache' = after.cache
           /\ gens' = [gens EXCEPT ![j] =
                  IF ~resultOk
                  THEN [g EXCEPT !.pc = "failed", !.error = "put_object failed"]
                  ELSE [g EXCEPT !.pc = "done", !.pdf_data = NoneBytes]]
    /\ lastResp' = NoReturn
    /\ lastPoll' = NoPoll
    /\ UNCHANGED <<clock, nreq, reqs, answered, derived, client>>

\* lambda_handler: the read of the cache key from jobs/{job_id}/status.json
\* and store_job_result(cache_bucket, job_id, pdf_data, cache_key).  No other
\* invocation writes this job's record, so the read and the writes are one
\* step.
GenStoreJobResult(j, readOk, resultOk, cacheOk) ==
    /\ gens[j].pc = "store_job_result"
    /\ LET g == gens[j]
           after == store_job_result(j, g.pdf_data, JobCacheKey(j, readOk), resultOk, cacheOk)
       IN  /\ jobResult' = after.result
           /\ cache' = after.cache
           /\ gens' = [gens EXCEPT ![j] =
                  IF StoreJobResultRaises(resultOk, cacheOk)
                  THEN [g EXCEPT !.pc = "failed", !.error = "put_object failed"]
                  ELSE [g EXCEPT !.pc = "completed"]]
    /\ lastResp' = NoReturn
    /\ lastPoll' = NoPoll
    /\ UNCHANGED <<clock, jobStatus, nreq, reqs, answered, derived, client>>

\* lambda_handler: update_job_status(cache_bucket, job_id, 'completed') after
\* the result is stored, or update_job_status(.., 'failed', str(e)) in the
\* except clauses, and the return.
GenUpdateJobStatus(j, readOk, writeOk) ==
    /\ gens[j].pc \in {"completed", "failed"}
    /\ LET g == gens[j]
       IN  /\ jobStatus' = update_job_status(j, g.pc, g.error, readOk, writeOk, clock.day)
           /\ gens' = [gens EXCEPT ![j] =
                  [g EXCEPT !.pc = "done", !.pdf_data = NoneBytes, !.error = ""]]
    /\ lastResp' = NoReturn
    /\ lastPoll' = NoPoll
    /\ UNCHANGED <<clock, cache, jobResult, nreq, reqs, answered, derived, client>>

(***************************************************************************)
(* Router: GET /job/{jobId}.                                               *)
(***************************************************************************)
\* get_job_status: found is FALSE for None (NoSuchKey or any other error).
get_job_status(job_id, readOk) ==
    IF readOk /\ job_id \in DOMAIN jobStatus
    THEN [found |-> TRUE, status_data |-> jobStatus[job_id]]
    ELSE [found |-> FALSE, status_data |-> EmptyStatus]

\* get_job_result: None for NoSuchKey and for any other error.
get_job_result(job_id, readOk) ==
    IF readOk /\ job_id \in DOMAIN jobResult THEN jobResult[job_id] ELSE NoneBytes

\* handle_job_status_request; job_id -1 is a request without the jobId path
\* parameter.
handle_job_status_request(job_id, statusOk, resultOk) ==
    LET got == get_job_status(job_id, statusOk)
        status_data == got.status_data
        pdf_data == get_job_result(job_id, resultOk)
    IN  IF job_id = -1 THEN ErrorResp(400, "Missing job ID")
        ELSE IF ~got.found \/ status_data.keys = {} THEN ErrorResp(404, "Job not found")
        ELSE IF status_data.status = "completed"
        THEN (IF TruthyBytes(pdf_data) THEN [NoResp EXCEPT !.statusCode = 200, !.body = pdf_data]
              ELSE ErrorResp(500, "Job completed but result not found"))
        ELSE IF status_data.status = "failed"
        THEN [NoResp EXCEPT !.statusCode = 500, !.status = "failed",
                            !.error = IF "error" \in status_data.keys THEN status_data.error
                                      ELSE "Unknown error"]
        ELSE [NoResp EXCEPT !.statusCode = 202, !.status = "pending", !.job_id = job_id]

\* A response that reports the end of the job: the PDF, or the failure.
TerminalAnswer(resp) ==
    \/ resp.statusCode = 200
    \/ resp.statusCode = 500 /\ resp.status = "failed"

\* The job ids that are polled: every id a request can draw, 0 for an id
\* that no job has, and -1 for a missing path parameter.
PollIds == -1..MaxRequests

\* handle_job_status_request: the store reads it makes: none without a job
\* id, get_job_status, and get_job_result when the record read says
\* 'completed'.
PollCalls(job_id, statusOk) ==
    LET got == get_job_status(job_id, statusOk)
    IN  IF job_id = -1 THEN <<>>
        ELSE IF ~got.found \/ got.status_data.keys = {} THEN <<"get_job_status">>
        ELSE IF got.status_data.status = "completed" THEN <<"get_job_status", "get_job_result">>
        ELSE <<"get_job_status">>

\* A poller that tidies up: it removes the record of a job once it has
\* reported the job's failure.
PollAndForget(job_id, statusOk, resultOk) ==
    /\ LET resp == handle_job_status_request(job_id, statusOk, resultOk)
       IN  /\ lastPoll' = [job_id |-> job_id, resp |-> resp, log |-> PollCalls(job_id, statusOk)]
           /\ answered' = IF TerminalAnswer(resp) THEN answered \cup {job_id} ELSE answered
           /\ jobStatus' = IF resp.status = "failed" THEN Without(jobStatus, job_id)
                           ELSE jobStatus
    /\ lastResp' = NoReturn
    /\ UNCHANGED <<clock, cache, jobResult, nreq, reqs, gens, derived, client>>

\* lambda_handler for the resource /job/{jobId}.  The result is read only
\* for a completed job, and nothing rewrites a result between the two reads,
\* so they are one step.
Poll(job_id, statusOk, resultOk) ==
    /\ LET resp == handle_job_status_request(job_id, statusOk, resultOk)
       IN  /\ lastPoll' = [job_id |-> job_id, resp |-> resp, log |-> PollCalls(job_id, statusOk)]
           /\ answered' = IF TerminalAnswer(resp) THEN answered \cup {job_id} ELSE answered
    /\ lastResp' = NoReturn
    /\ UNCHANGED <<clock, cache, jobStatus, jobResult, nreq, reqs, gens, derived, client>>

(***************************************************************************)
(* The clock, and the specifications.                                      *)
(***************************************************************************)
\* Midnight passes.
Tick ==
    /\ clock.ticks < MaxTicks
    /\ clock' = [day |-> NextDay(clock.day), ticks |-> clock.ticks + 1]
    /\ lastResp' = NoReturn
    /\ lastPoll' = NoPoll
    /\ UNCHANGED <<cache, jobStatus, jobResult, nreq, reqs, gens, answered, derived, client>>

\* The steps of the router invocations of daily requests.
DailyStep ==
    \/ \E r \in DOMAIN reqs, invokeOk \in BOOLEAN, rendering \in Renderings :
           InvokeGenerator(r, invokeOk, rendering)
    \/ \E r \in DOMAIN reqs, writeOk \in BOOLEAN : StoreInCache(r, writeOk)

\* The steps of the router invocations of monthly requests.
MonthlyStep ==
    \/ \E r \in DOMAIN reqs, writeOk \in BOOLEAN : CreateJob(r, writeOk)
    \/ \E r \in DOMAIN reqs, invokeOk \in BOOLEAN : InvokeGeneratorAsync(r, invokeOk)

\* The steps of the asynchronous generator invocations.
GeneratorStep ==
    \/ \E j \in DOMAIN gens, renderOk \in BOOLEAN : GenRender(j, renderOk)
    \/ \E j \in DOMAIN gens, readOk \in BOOLEAN, resultOk \in BOOLEAN, cacheOk \in BOOLEAN :
           GenStoreJobResult(j, readOk, resultOk, cacheOk)
    \/ \E j \in DOMAIN gens, readOk \in BOOLEAN, writeOk \in BOOLEAN :
           GenUpdateJobStatus(j, readOk, writeOk)

\* Requests for PDFs: the router, the generator and the bucket, with every
\* store access and every invoke free to fail.
Next ==
    \/ \E params \in Queries, readOk \in BOOLEAN : Receive(params, readOk)
    \/ DailyStep
    \/ MonthlyStep
    \/ GeneratorStep

Spec == Init /\ [][Next]_vars

\* The monthly queries that pass the router's validation and read the cache.
JobQueries == {params \in Queries : LET loc == RouterParsed[params, StartDay]
                                    IN  loc.statusCode = 0 /\ loc.is_monthly /\ ~loc.bypass_cache}

\* Jobs and their polls.  Daily requests and rejected queries touch no job
\* record and are left out, as are monthly requests with nocache, which
\* differ from the others only in skipping the lookup.
NextJobs ==
    \/ \E params \in JobQueries, readOk \in BOOLEAN : Receive(params, readOk)
    \/ MonthlyStep
    \/ GeneratorStep
    \/ \E job_id \in PollIds, statusOk \in BOOLEAN, resultOk \in BOOLEAN :
           Poll(job_id, statusOk, resultOk)

SpecJobs == Init /\ [][NextJobs]_vars

\* Requests that rely on the clock, while midnight passes at any moment:
\* between the router's key derivation and the generator's rendering too.
NextClock ==
    \/ \E params \in ClockQueries, readOk \in BOOLEAN : Receive(params, readOk)
    \/ DailyStep
    \/ MonthlyStep
    \/ GeneratorStep
    \/ Tick

SpecClock == Init /\ [][NextClock]_vars

\* A synchronous generation whose output file holds no bytes.
EmptyStep == \E r \in DOMAIN reqs : InvokeGenerator(r, TRUE, "empty")

NextEmpty ==
    \/ Next
    \/ EmptyStep

\* Requests for PDFs, with generations that may also give an empty output.
SpecEmpty == Init /\ [][NextEmpty]_vars

\* Requests that must be rejected, next to a valid daily one.
NextErrors ==
    \/ \E params \in ErrorQueries \cup {Query(s_morning, <<>>, s_date, <<>>, <<>>, <<>>, <<>>)},
          readOk \in BOOLEAN : Receive(params, readOk)
    \/ DailyStep

SpecErrors == Init /\ [][NextErrors]_vars

\* generate_cache_key applied to a record of arguments.
KeyOf(a, now) ==
    generate_cache_key(a.prayer_type, a.date_string, a.remarkable, a.is_monthly,
                       a.year, a.month, a.psalm_cycle, now)

\* The arguments with which lambda_handler calls generate_cache_key: for a
\* daily request the date as sent or None, and None for year, month and
\* psalm_cycle; for a monthly request the year as parsed by int (any
\* integer, 0 included) or the current one, the month, and the psalm cycle
\* or None.
DailyArgs ==
    {KeyArgs(t, d, rm, FALSE, PyNone, PyNone, PyNone) :
         t \in {"morning", "evening"}, d \in {<<>>, s_date, s_date2}, rm \in BOOLEAN}

MonthlyArgs ==
    {KeyArgs(t, <<>>, rm, TRUE, y, m, c) :
         t \in {"morning", "evening"}, rm \in BOOLEAN,
         y \in {PyNone, PyInt(0), PyInt(2025)}, m \in {PyNone, PyInt(12)},
         c \in {PyNone, PyInt(60)}}

AllKeyArgs == DailyArgs \cup MonthlyArgs

\* generate_cache_key is called with a when the clock shows na, and with b
\* when it shows nb.
DeriveKeys(a, b, na, nb) ==
    /\ derived = NoDerived
    /\ derived' = [a |-> a, b |-> b, na |-> na, nb |-> nb, ka |-> KeyOf(a, na), kb |-> KeyOf(b, nb)]
    /\ UNCHANGED <<clock, cache, jobStatus, jobResult, nreq, reqs, gens, lastResp, lastPoll,
                   answered, client>>

NextKeys ==
    /\ derived = NoDerived
    /\ \E a \in AllKeyArgs, b \in AllKeyArgs, na \in Days, nb \in Days : DeriveKeys(a, b, na, nb)

\* Calls of generate_cache_key, two at a time.
SpecKeys == Init /\ [][NextKeys]_vars

(***************************************************************************)
(* DailyOfficeAPIClient: the get_* methods and the response cache.         *)
(***************************************************************************)
MaxCalls == 3

BASE_URL == "https://api.dailyoffice2019.com/api/v1/"

\* An Optional[date].
NoneDate == [none |-> TRUE, v |-> StartDay]

SomeDate(d) == [none |-> FALSE, v |-> d]

\* json.dumps(params, sort_keys=True) for the params of a get_* method.
ParamStr(psalm_cycle) ==
    IF psalm_cycle.none THEN "{}" ELSE "{\"psalms\": " \o IntToStr(psalm_cycle.v) \o "}"

\* _get_cache_key: the SHA-256 digest of endpoint_params names the file; the
\* digest is taken to be free of collisions, so the text it is made of stands
\* for it.
get_cache_key(endpoint, psalm_cycle) == endpoint \o "_" \o ParamStr(psalm_cycle)

\* The body of the API's answer for a cache key, and a cache file that
\* cannot be opened or does not hold JSON.
ResponseData(cache_key) == "data of " \o cache_key

Unreadable == "unreadable"

\* A client whose cache lookup finds nothing.
get_from_cache_disabled(cache_key, enable_cache) == ""

\* _get_from_cache: the data of the file, or None (the empty string here)
\* when caching is off, when there is no file, and when the file cannot be
\* read or parsed.
get_from_cache(cache_key, enable_cache) ==
    IF enable_cache /\ cache_key \in DOMAIN client.files /\ client.files[cache_key] # Unreadable
    THEN client.files[cache_key]
    ELSE ""

\* _save_to_cache: the files after the call.  An IOError is swallowed: it
\* leaves the files as they were when open fails, and a file without valid
\* JSON when the write breaks off.
save_to_cache(cache_key, data, enable_cache, save) ==
    IF ~enable_cache \/ save = "IOError" THEN client.files
    ELSE IF save = "partial" THEN Put(client.files, cache_key, Unreadable)
    ELSE Put(client.files, cache_key, data)

\* A client that keeps the text of a response that is not JSON.
SavesOnErrorToo(http) == http \in {"ok", "invalid_json"}

\* The get_* methods: _save_to_cache is reached only after raise_for_status
\* and response.json() have returned.
Saves(http) == http = "ok"

\* get_morning_prayer, get_evening_prayer, get_midday_prayer, get_compline
\* (method names the endpoint): on a client with or without cache, for a
\* date or None, with a psalm cycle or None.  http is what the GET does:
\* "ok", "RequestException" (no connection, timeout, HTTP error status) or
\* "invalid_json" (response.json() raises ValueError).
Get(method, enable_cache, prayer_date, psalm_cycle, http, save) ==
    /\ client.calls < MaxCalls
    /\ LET date_str == Strftime(IF prayer_date.none THEN clock.day ELSE prayer_date.v)
           endpoint == "office/" \o method \o "/" \o date_str
           cache_key == get_cache_key(endpoint, psalm_cycle)
           cached_data == get_from_cache(cache_key, enable_cache)
           call == [NoCall EXCEPT !.method = method, !.enable_cache = enable_cache]
       IN  IF ~psalm_cycle.none /\ psalm_cycle.v \notin {30, 60}
           THEN client' = [client EXCEPT !.calls = @ + 1,
                                         !.last = [call EXCEPT !.result = "ValueError"]]
           ELSE IF cached_data # ""
           THEN client' = [client EXCEPT
                    !.calls = @ + 1,
                    !.last = [call EXCEPT !.cache_key = cache_key, !.result = "data",
                                          !.data = cached_data]]
           ELSE client' = [client EXCEPT
                    !.calls = @ + 1,
                    !.files = IF Saves(http)
                              THEN save_to_cache(cache_key, ResponseData(cache_key),
                                                 enable_cache, save)
                              ELSE @,
                    !.last = [call EXCEPT
                                 !.cache_key = cache_key,
                                 !.url = BASE_URL \o endpoint,
                                 !.gets = 1,
                                 !.result = IF http = "ok" THEN "data"
                                            ELSE IF http = "invalid_json" THEN "ValueError"
                                            ELSE "RequestException",
                                 !.data = IF http = "ok" THEN ResponseData(cache_key) ELSE ""]]
    /\ lastResp' = NoReturn
    /\ lastPoll' = NoPoll
    /\ UNCHANGED <<clock, cache, jobStatus, jobResult, nreq, reqs, gens, answered, derived>>

\* The calls that are made: two of the four methods, today's date given or
\* left out, and the psalm cycles None, 60 and 45 (which is refused).
NextClient ==
    \E method \in {"morning_prayer", "evening_prayer"}, enable_cache \in BOOLEAN,
       prayer_date \in {NoneDate, SomeDate(StartDay)},
       psalm_cycle \in {PyNone, PyInt(60), PyInt(45)},
       http \in {"ok", "RequestException", "invalid_json"},
       save \in {"written", "IOError", "partial"} :
        Get(method, enable_cache, prayer_date, psalm_cycle, http, save)

SpecClient == Init /\ [][NextClient]_vars

(***************************************************************************)
(* Properties.                                                             *)
(***************************************************************************)
\* The calls in a trace.
Ops(log) == {log[i].op : i \in DOMAIN log}

\* The entries of a trace.
Events(log) == {log[i] : i \in DOMAIN log}

\* The number of calls of op in a trace.
CountOp(log, op) == Cardinality({i \in DOMAIN log : log[i].op = op})

\* The step just taken returned the response of a GET /prayer request.
Returned == lastResp.req # 0

\* C1 (cache-hit short circuit): a request without nocache whose lookup
\* returns an artifact answers in that same step, with a trace holding only
\* the lookup: 200 with the bytes found, no synchronous or asynchronous
\* generator invocation, no job record; and no request that found an
\* artifact is ever still on its way to the generator.
C1_CacheHitShortCircuit ==
    /\ \A r \in DOMAIN reqs : Ev("check_cache", "found") \notin Events(reqs[r].log)
    /\ (Returned /\ Ev("check_cache", "found") \in Events(lastResp.log)) =>
           /\ ~lastResp.loc.bypass_cache
           /\ lastResp.log = <<Ev("check_cache", "found")>>
           /\ lastResp.resp.statusCode = 200
           /\ lastResp.loc.cache_key \in DOMAIN cache
           /\ lastResp.resp.body = cache[lastResp.loc.cache_key]
           /\ lastResp.req \notin DOMAIN jobStatus
           /\ lastResp.req \notin DOMAIN gens

\* A monthly request is answered from the cache that an earlier job filled.
C1_Witness ==
    /\ Returned
    /\ lastResp.loc.is_monthly
    /\ lastResp.log = <<Ev("check_cache", "found")>>
    /\ lastResp.resp.x_cache = "HIT"

\* C2 (artifact before status): a job whose record says 'completed' has its
\* result at jobs/{job_id}/result.pdf.
C2_ArtifactBeforeStatus ==
    \A j \in DOMAIN jobStatus :
        jobStatus[j].status = "completed" => j \in DOMAIN jobResult

\* The statuses that end a job.
Terminal == {"completed", "failed"}

\* C3 (job monotonicity): in every step, a job record that appears is
\* 'pending'; no record disappears; a status that changes was 'pending' and
\* becomes 'completed' or 'failed', so a terminal status never changes; and a
\* poll of a job that an earlier poll answered with 200 or with the failed
\* 500 is not answered 202.
C3_JobMonotonicity ==
    [][/\ \A j \in DOMAIN jobStatus' \ DOMAIN jobStatus : jobStatus'[j].status = "pending"
       /\ \A j \in DOMAIN jobStatus :
              /\ j \in DOMAIN jobStatus'
              /\ jobStatus'[j].status # jobStatus[j].status =>
                     /\ jobStatus[j].status = "pending"
                     /\ jobStatus'[j].status \in Terminal
       /\ (lastPoll'.resp.statusCode # 0 /\ lastPoll'.job_id \in answered) =>
              lastPoll'.resp.statusCode # 202
      ]_vars

\* A poll of a completed job that an earlier poll had already answered.
C3_Witness ==
    /\ lastPoll.resp.statusCode = 200
    /\ lastPoll.job_id \in answered
    /\ \E j \in DOMAIN jobStatus : jobStatus[j].status = "failed"

\* C4 (four-way status contract): a poll with a job id answers 404 exactly
\* when the id has no record, 202 'pending' exactly when the record is
\* pending, 200 with the result exactly when it is completed, 500 'failed'
\* with the error exactly when it is failed, and nothing else.
C4_FourWayStatusContract ==
    (lastPoll.resp.statusCode # 0 /\ lastPoll.job_id >= 0) =>
        LET j == lastPoll.job_id
            resp == lastPoll.resp
            exists == j \in DOMAIN jobStatus
            status == IF exists THEN jobStatus[j].status ELSE ""
        IN  /\ resp.statusCode = 404 <=> ~exists
            /\ (resp.statusCode = 202 /\ resp.status = "pending") <=> status = "pending"
            /\ (resp.statusCode = 200 /\ ~resp.body.none) <=> status = "completed"
            /\ (resp.statusCode = 500 /\ resp.status = "failed" /\ resp.error # "")
                   <=> status = "failed"
            /\ \/ resp.statusCode = 404
               \/ resp.statusCode = 202 /\ resp.status = "pending"
               \/ resp.statusCode = 200 /\ ~resp.body.none
               \/ resp.statusCode = 500 /\ resp.status = "failed"

\* C5 (validation fails fast): a request answered 400 has called neither the
\* cache, nor the job registry, nor the generator.
C5_ValidationFailsFast ==
    (Returned /\ lastResp.resp.statusCode = 400) => lastResp.log = <<>>

\* The request just answered was valid for the router and was not answered
\* from the cache: a miss, a failed read, or nocache.
MissOrBypass ==
    /\ Returned
    /\ lastResp.loc.statusCode = 0
    /\ Ev("check_cache", "found") \notin Events(lastResp.log)

\* What C6 and its correction share: a daily request that misses makes one
\* synchronous invocation, creates no job record and is not answered 202; a
\* monthly one makes no synchronous invocation.
C6_Daily ==
    (MissOrBypass /\ ~lastResp.loc.is_monthly) =>
        /\ CountOp(lastResp.log, "invoke_generator") = 1
        /\ Ops(lastResp.log) \cap {"create_job", "invoke_generator_async"} = {}
        /\ lastResp.req \notin DOMAIN jobStatus
        /\ lastResp.req \notin DOMAIN gens
        /\ lastResp.resp.statusCode # 202

\* C6 as stated (static classification): on a miss or bypass a daily request
\* is handled by one synchronous invocation without job or 202, and a monthly
\* request always creates one job record, triggers one asynchronous
\* invocation, no synchronous one, and returns 202 with the job's id.
C6_StaticClassification ==
    /\ C6_Daily
    /\ (MissOrBypass /\ lastResp.loc.is_monthly) =>
           /\ "invoke_generator" \notin Ops(lastResp.log)
           /\ CountOp(lastResp.log, "create_job") = 1
           /\ CountOp(lastResp.log, "invoke_generator_async") = 1
           /\ lastResp.req \in DOMAIN jobStatus
           /\ lastResp.req \in DOMAIN gens
           /\ lastResp.resp.statusCode = 202
           /\ lastResp.resp.job_id = lastResp.req

\* C6 corrected: the daily part as stated; a monthly request that misses
\* makes no synchronous invocation, tries create_job once and, only when the
\* record is written, triggers the asynchronous invocation once; it returns
\* 202 with the job's id exactly when both succeed, and 500 otherwise,
\* without an invocation when create_job failed.
C6_ClassificationUnlessFailure ==
    /\ C6_Daily
    /\ (MissOrBypass /\ lastResp.loc.is_monthly) =>
           LET log == lastResp.log
               r == lastResp.req
               created == Ev("create_job", "ok") \in Events(log)
               triggered == Ev("invoke_generator_async", "ok") \in Events(log)
           IN  /\ "invoke_generator" \notin Ops(log)
               /\ CountOp(log, "create_job") = 1
               /\ CountOp(log, "invoke_generator_async") = IF created THEN 1 ELSE 0
               /\ r \in DOMAIN jobStatus <=> created
               /\ created => jobStatus[r].status = "pending"
               /\ r \in DOMAIN gens <=> triggered
               /\ IF created /\ triggered
                  THEN lastResp.resp.statusCode = 202 /\ lastResp.resp.job_id = r
                  ELSE lastResp.resp.statusCode = 500

\* A monthly request that missed returns 202 with the id of its job.
C6_Witness ==
    /\ MissOrBypass
    /\ lastResp.loc.is_monthly
    /\ lastResp.resp.statusCode = 202
    /\ lastResp.resp.job_id \in DOMAIN gens

\* C7 (job record before trigger and before handle): every generator
\* invocation of a job, and every router invocation about to trigger one, has
\* its job's record in the registry, 'pending' until the generator writes the
\* outcome; every 202 returns an id whose record exists; and a request whose
\* create_job failed has triggered nothing.
C7_JobRecordBeforeTrigger ==
    /\ \A j \in DOMAIN gens :
           /\ j \in DOMAIN jobStatus
           /\ gens[j].pc # "done" => jobStatus[j].status = "pending"
    /\ \A r \in DOMAIN reqs :
           reqs[r].pc = "invoke_generator_async" =>
               /\ reqs[r].job_id \in DOMAIN jobStatus
               /\ jobStatus[reqs[r].job_id].status = "pending"
    /\ (Returned /\ lastResp.resp.statusCode = 202) =>
           /\ lastResp.resp.job_id \in DOMAIN jobStatus
           /\ lastResp.log[Len(lastResp.log) - 1] = Ev("create_job", "ok")
    /\ (Returned /\ Ev("create_job", "error") \in Events(lastResp.log)) =>
           /\ "invoke_generator_async" \notin Ops(lastResp.log)
           /\ lastResp.req \notin DOMAIN gens

\* A 202 is returned for a job whose generator has not started.
C7_Witness ==
    /\ Returned
    /\ lastResp.resp.statusCode = 202
    /\ gens[lastResp.resp.job_id].pc = "render"

\* The cache keys whose entry the asynchronous invocation of job j wrote.
WrittenBy(j) == {k \in DOMAIN cache : cache[k].by = j}

\* C8 (async failure writes no artifact): an asynchronous invocation that is
\* about to set, or has set, its job to 'failed' has written neither the
\* job's result.pdf nor any cache entry.
C8_AsyncFailureWritesNoArtifact ==
    \A j \in DOMAIN gens :
        (\/ gens[j].pc = "failed"
         \/ j \in DOMAIN jobStatus /\ jobStatus[j].status = "failed") =>
            /\ j \notin DOMAIN jobResult
            /\ WrittenBy(j) = {}

\* A job has failed whose target key holds the entry of an earlier request.
C8_Witness ==
    \E j \in DOMAIN jobStatus :
        /\ jobStatus[j].status = "failed"
        /\ "params" \in jobStatus[j].keys
        /\ jobStatus[j].params.cache_key \in DOMAIN cache

\* C9 (completed job populates the cache): a completed job's artifact is
\* stored at the cache key recorded in the job's params.
C9_CompletedJobPopulatesCache ==
    \A j \in DOMAIN jobStatus :
        (jobStatus[j].status = "completed" /\ "params" \in jobStatus[j].keys) =>
            /\ jobStatus[j].params.cache_key \in DOMAIN cache
            /\ ~cache[jobStatus[j].params.cache_key].none

\* The request of a router invocation r, or of job r's generator, set nocache.
Nocache(params) == Flag(params.nocache)

\* What C10 and its correction share: a request with nocache does not read
\* the cache.
C10_NoRead ==
    /\ \A r \in DOMAIN reqs : reqs[r].loc.bypass_cache => "check_cache" \notin Ops(reqs[r].log)
    /\ (Returned /\ lastResp.loc.bypass_cache) => "check_cache" \notin Ops(lastResp.log)

Rendered(r) ==
    {Pdf(r, GeneratorParsed[params, clock.day].what) :
         params \in {p \in Queries : RouterParsed[p, clock.day] = lastResp.loc}}

\* C11 (cache write is best-effort): a daily request whose generator returned
\* a 200 artifact and whose cache put failed is answered 200 with exactly the
\* bytes the generator produced for it; no answer after a failed cache put is
\* an error.
C11_CacheWriteBestEffort ==
    (Returned /\ Ev("store_in_cache", "error") \in Events(lastResp.log)) =>
        /\ Ev("invoke_generator", "200") \in Events(lastResp.log)
        /\ lastResp.resp.statusCode = 200
        /\ lastResp.resp.error = ""
        /\ lastResp.resp.body \in Rendered(lastResp.req)

\* A request is answered 200 although its PDF could not be cached: the key
\* holds nothing.
C11_Witness ==
    /\ Returned
    /\ Ev("store_in_cache", "error") \in Events(lastResp.log)
    /\ lastResp.resp.statusCode = 200
    /\ lastResp.loc.cache_key \notin DOMAIN cache

\* The request just answered came back from the synchronous invocation
\* without a 200 artifact: the invoke failed, or the payload has another
\* status or none.
SyncFailed ==
    /\ Returned
    /\ lastResp.log # <<>>
    /\ lastResp.log[Len(lastResp.log)].op = "invoke_generator"

\* C13 (sync generation failure is a 500): a valid daily request whose
\* synchronous generation fails (the invoke raises, the rendering raises, or
\* the payload lacks a 200 status) is answered 500.
C13_SyncFailureIs500 ==
    (SyncFailed /\ \E params \in Queries :
                       /\ RouterParsed[params, clock.day] = lastResp.loc
                       /\ GeneratorParsed[params, clock.day].outcome = "render") =>
        lastResp.resp.statusCode = 500

\* The path on which the router generates for a request with these locals.
GeneratePath(loc) == IF loc.is_monthly THEN "create_job" ELSE "invoke_generator"

\* C12 (cache read fails open): a request whose cache lookup failed goes on
\* as on a miss: it is next at the synchronous invocation (daily) or at
\* create_job (monthly) with no PDF in hand, it is not answered at the
\* lookup, and the call after the lookup is the one a miss makes.
C12_CacheReadFailsOpen ==
    /\ \A r \in DOMAIN reqs :
           reqs[r].log = <<Ev("check_cache", "error")>> =>
               /\ reqs[r].pc = GeneratePath(reqs[r].loc)
               /\ reqs[r].pdf_data = NoneBytes
               /\ ~reqs[r].cache_hit
    /\ (Returned /\ Ev("check_cache", "error") \in Events(lastResp.log)) =>
           /\ Len(lastResp.log) >= 2
           /\ lastResp.log[1] = Ev("check_cache", "error")
           /\ lastResp.log[2].op = GeneratePath(lastResp.loc)
           /\ lastResp.resp.statusCode = 200 => lastResp.resp.x_cache = "MISS"

\* A request whose lookup failed although its key holds an entry is on its
\* way to generate.
C12_Witness ==
    \E r \in DOMAIN reqs :
        /\ reqs[r].log = <<Ev("check_cache", "error")>>
        /\ reqs[r].loc.cache_key \in DOMAIN cache

\* C14 (failed sync generation has no side effect and no fallback): a step
\* in which a request returns from the synchronous invocation (no 200
\* artifact came back) leaves the cache as it was, and its response is not a
\* 200 and carries no PDF, cached or other.
C14_FailedSyncNoSideEffect ==
    [][\A r \in DOMAIN reqs :
           (reqs[r].pc = "invoke_generator" /\ r \notin DOMAIN reqs') =>
               /\ cache' = cache
               /\ lastResp'.req = r
               /\ lastResp'.resp.statusCode # 200
               /\ lastResp'.resp.body = NoneBytes
               /\ "store_in_cache" \notin Ops(lastResp'.log)
      ]_vars

\* A request with nocache fails to generate while its key holds an entry.
C14_Witness ==
    /\ SyncFailed
    /\ lastResp.loc.bypass_cache
    /\ lastResp.loc.cache_key \in DOMAIN cache

\* The psalm cycle that the service documents as the default.
DefaultPsalmCycle == 60

\* The descriptor that the arguments a stand for when the clock shows now:
\* every omitted field replaced by its default.
Canonical(a, now) ==
    [kind |-> a.prayer_type,
     monthly |-> a.is_monthly,
     variant |-> IF a.remarkable THEN "remarkable" ELSE "letter",
     date |-> IF a.is_monthly THEN ""
              ELSE IF a.date_string = <<>> THEN Strftime(now) ELSE Str(a.date_string),
     year |-> IF ~a.is_monthly THEN 0 ELSE IF a.year.none THEN now.y ELSE a.year.v,
     month |-> IF ~a.is_monthly THEN 0 ELSE IF a.month.none THEN now.m ELSE a.month.v,
     cycle |-> IF ~a.is_monthly THEN 0
               ELSE IF a.psalm_cycle.none THEN DefaultPsalmCycle ELSE a.psalm_cycle.v]

\* generate_cache_key has been called twice.
Derived == derived # NoDerived

\* C15 (key derivation is pure and deterministic): two calls with equal
\* arguments return the same key, whatever the clock shows at each call.
C15_KeyDerivationPure ==
    (Derived /\ derived.a = derived.b) => derived.ka = derived.kb

\* C16 (key separation): two calls at the same time whose descriptors differ
\* in prayer type, scope, date or year/month, page size or psalm cycle return
\* different keys.
C16_KeySeparation ==
    (Derived /\ derived.na = derived.nb
        /\ Canonical(derived.a, derived.na) # Canonical(derived.b, derived.nb)) =>
        derived.ka # derived.kb

\* C17 (default collision): two calls at the same time that differ only in
\* that one omits a parameter and the other supplies its default (date =
\* today, year/month = current, psalm_cycle = 60) return the same key.
C17_DefaultCollision ==
    (Derived /\ derived.na = derived.nb
        /\ Canonical(derived.a, derived.na) = Canonical(derived.b, derived.nb)) =>
        derived.ka = derived.kb

\* C18 (no time-dependence downstream of canonicalization): the artifact
\* stored under a key was rendered for the date, or the year and month, of
\* that key: there is a day on which the router derives this key for a
\* request and the generator renders this artifact for the same request.
C18_NoTimeDependence ==
    \A k \in DOMAIN cache :
        \E params \in ClockQueries, day \in Days :
            /\ RouterParsed[params, day].cache_key = k
            /\ GeneratorParsed[params, day].what = cache[k].of

\* The artifact pdf is the whole output of one generator invocation made for
\* the key k: some request derives k, and the generator renders this
\* artifact for that request.
OutputFor(pdf, k) ==
    /\ pdf.by \in 1..nreq
    /\ pdf.len > 0
    /\ \E params \in Queries :
           /\ RouterParsed[params, clock.day].cache_key = k
           /\ GeneratorParsed[params, clock.day].outcome = "render"
           /\ pdf = Pdf(pdf.by, GeneratorParsed[params, clock.day].what)

\* C19 (duplicate work, not corruption): whatever the interleaving of the
\* requests, every cache entry is the whole output of one generator
\* invocation made for its key, every PDF waiting to be stored is too, and
\* every 200 response carries such an output: the one generated for the
\* request, or the cached entry.
C19_DuplicateWorkNotCorruption ==
    /\ \A k \in DOMAIN cache : OutputFor(cache[k], k)
    /\ \A r \in DOMAIN reqs :
           reqs[r].pc = "store_in_cache" =>
               /\ OutputFor(reqs[r].pdf_data, reqs[r].loc.cache_key)
               /\ reqs[r].pdf_data.by = r
    /\ (Returned /\ lastResp.resp.statusCode = 200) =>
           /\ OutputFor(lastResp.resp.body, lastResp.loc.cache_key)
           /\ \/ lastResp.resp.body.by = lastResp.req
              \/ /\ lastResp.loc.cache_key \in DOMAIN cache
                 /\ lastResp.resp.body = cache[lastResp.loc.cache_key]

\* Two requests missed on the same key, and the second is about to overwrite
\* the entry that the first has stored.
C19_Witness ==
    \E r \in DOMAIN reqs :
        /\ reqs[r].pc = "store_in_cache"
        /\ reqs[r].log[1] = Ev("check_cache", "miss")
        /\ reqs[r].loc.cache_key \in DOMAIN cache
        /\ cache[reqs[r].loc.cache_key].by < r

\* The step receives a valid daily request without nocache whose key holds
\* an entry: the artifact that the last successful store_in_cache for this
\* key wrote, just before its request was answered 200 with X-Cache: MISS.
\* (Every daily query of Queries carries an explicit date.)
LaterRequest ==
    /\ nreq' = nreq + 1
    /\ LET loc == IF lastResp'.req = nreq' THEN lastResp'.loc ELSE reqs'[nreq'].loc
       IN  /\ loc.statusCode = 0
           /\ ~loc.is_monthly
           /\ ~loc.bypass_cache
           /\ loc.cache_key \in DOMAIN cache

\* The trace of the request that the step receives.
LaterLog == IF lastResp'.req = nreq' THEN lastResp'.log ELSE reqs'[nreq'].log

\* The request that the step receives is answered in that step: 200 with
\* X-Cache: HIT and the bytes of the entry, the lookup being its only call.
AnsweredFromCache ==
    /\ lastResp'.req = nreq'
    /\ lastResp'.resp.statusCode = 200
    /\ lastResp'.resp.x_cache = "HIT"
    /\ lastResp'.resp.body = cache[lastResp'.loc.cache_key]
    /\ lastResp'.log = <<Ev("check_cache", "found")>>
    /\ cache' = cache

C21_XCacheTruthful ==
    (Returned /\ lastResp.resp.statusCode = 200) =>
        /\ lastResp.resp.x_cache = "HIT" <=>
               /\ Ev("check_cache", "found") \in Events(lastResp.log)
               /\ "invoke_generator" \notin Ops(lastResp.log)
        /\ lastResp.resp.x_cache = "MISS" <=> "invoke_generator" \in Ops(lastResp.log)

\* The status codes of the service's contract.
StatusCodes == {200, 202, 400, 404, 500}

\* C22 (closed set of outcomes): every response of the router, to GET /prayer
\* and to GET /job/{jobId}, carries one of the status codes 200, 202, 400,
\* 404 and 500.
C22_ClosedOutcomes ==
    /\ Returned => lastResp.resp.statusCode \in StatusCodes
    /\ lastPoll # NoPoll => lastPoll.resp.statusCode \in StatusCodes

\* C23 (async non-blocking): the step in which the router answers a monthly
\* miss with 202 is the step of the Event invoke: the response holds the
\* job id and 'pending' and nothing else, the invocation it triggered has
\* not taken a step, the router has made no call but the lookup, create_job
\* and the invoke, and no job result and no cache entry changes.
C23_AsyncNonBlocking ==
    [][(lastResp'.req # 0 /\ lastResp'.resp.statusCode = 202) =>
           LET r == lastResp'.req
           IN  /\ reqs[r].pc = "invoke_generator_async"
               /\ lastResp'.resp = [NoResp EXCEPT !.statusCode = 202, !.status = "pending",
                                                  !.job_id = r]
               /\ r \notin DOMAIN gens
               /\ r \in DOMAIN gens'
               /\ gens'[r].pc = "render"
               /\ r \notin DOMAIN jobResult'
               /\ Ops(lastResp'.log) \subseteq {"check_cache", "create_job",
                                                "invoke_generator_async"}
               /\ UNCHANGED <<cache, jobStatus, jobResult>>]_vars

\* A 202 is returned while the job's invocation has not started, and while
\* the invocation of an earlier job has not finished.
C23_Witness ==
    /\ Returned
    /\ lastResp.resp.statusCode = 202
    /\ gens[lastResp.req].pc = "render"
    /\ jobStatus[lastResp.req].status = "pending"
    /\ \E j \in DOMAIN gens : j # lastResp.req /\ gens[j].pc = "store_job_result"

\* The step just taken returned the response to a valid monthly request.
MonthlyReturned ==
    /\ Returned
    /\ lastResp.loc.statusCode = 0
    /\ lastResp.loc.is_monthly

ErrorQueryReturned ==
    /\ Returned
    /\ \E params \in ErrorQueries : lastResp.loc = RouterParsed[params, clock.day]

\* C25 (invalid requests get 400): a request without a prayer type, with an
\* unsupported one, or with a valid type and a date that is not in the
\* format YYYY-MM-DD is answered 400.
C25_InvalidRequestsGet400 ==
    ErrorQueryReturned => lastResp.resp.statusCode = 400

\* C26 (status poller is read-only): a poll changes no job record, no job
\* result and no cache entry, starts no generator invocation and no request;
\* with a job id it reads the job record once, and it reads the result, once,
\* only when that record says 'completed'.
C26_PollerReadOnly ==
    [][lastPoll' # NoPoll =>
           /\ UNCHANGED <<cache, jobStatus, jobResult, gens, reqs, nreq>>
           /\ LET j == lastPoll'.job_id
                  completed == j \in DOMAIN jobStatus /\ jobStatus[j].status = "completed"
              IN  /\ lastPoll'.log \in {<<>>, <<"get_job_status">>,
                                        <<"get_job_status", "get_job_result">>}
                  /\ j # -1 => Len(lastPoll'.log) >= 1
                  /\ Len(lastPoll'.log) = 2 => completed
                  /\ lastPoll'.resp.statusCode = 200 => Len(lastPoll'.log) = 2]_vars

\* The poll of a completed job is answered with its PDF while another job
\* has failed and a generator invocation is at work.
C26_Witness ==
    /\ lastPoll.log = <<"get_job_status", "get_job_result">>
    /\ lastPoll.resp.statusCode = 200
    /\ \E j \in DOMAIN jobStatus : jobStatus[j].status = "failed"

\* A step that is a call of a get_* method.
Called == client'.calls = client.calls + 1

Raised(call) == call.gets = 1 /\ call.result \in {"RequestException", "ValueError"}

\* C28 (API client errors leave its response cache untouched): a call whose
\* GET fails, or whose response is not JSON, raises and leaves every cache
\* file as it was; and the next call on that client (caching on or off as
\* before) for the same endpoint and parameters issues a GET again.
C28_ErrorsLeaveCacheUntouched ==
    [][Called =>
           /\ Raised(client'.last) => client'.files = client.files
           /\ (/\ Raised(client.last)
               /\ client'.last.cache_key = client.last.cache_key
               /\ client'.last.enable_cache = client.last.enable_cache) =>
                  client'.last.gets = 1]_vars

\* A call on a client with caching on has raised after its GET, and .cache
\* holds no file for its key, though it holds the file of an earlier call.
C28_Witness ==
    /\ client.calls >= 2
    /\ Raised(client.last)
    /\ client.last.enable_cache
    /\ client.files # <<>>
    /\ client.last.cache_key \notin DOMAIN client.files

\* C29 (every terminated job is terminal): once the generator invocation of
\* a job has ended, the job's record says 'completed' or 'failed'.
C29_TerminatedJobIsTerminal ==
    \A j \in DOMAIN gens :
        gens[j].pc = "done" => j \in DOMAIN jobStatus /\ jobStatus[j].status \in Terminal

\* C30 (no orphan jobs): a job record whose creating request the router has
\* finished handling belongs to a job for which the generator was invoked.
C30_NoOrphanJobs ==
    \A j \in DOMAIN jobStatus : j \notin DOMAIN reqs => j \in DOMAIN gens

\* C31 (terminal update preserves the job record): no step changes the
\* created_at or the params of a job record, or removes them from it.
C31_UpdatePreservesRecord ==
    [][\A j \in DOMAIN jobStatus :
           /\ j \in DOMAIN jobStatus'
           /\ jobStatus'[j].created_at = jobStatus[j].created_at
           /\ jobStatus'[j].params = jobStatus[j].params
           /\ jobStatus[j].keys \cap {"created_at", "params"} \subseteq jobStatus'[j].keys]_vars

\* The record and the result of job i are the same before and after the step.
JobUntouched(i) ==
    /\ i \in DOMAIN jobStatus <=> i \in DOMAIN jobStatus'
    /\ i \in DOMAIN jobStatus => jobStatus'[i] = jobStatus[i]
    /\ i \in DOMAIN jobResult <=> i \in DOMAIN jobResult'
    /\ i \in DOMAIN jobResult => jobResult'[i] = jobResult[i]

\* C32 (jobs are isolated under concurrency): every job's invocation works
\* for the request that gave the job its id, every stored result was
\* rendered by its own job's invocation, and a step of the invocation of job
\* j leaves the record and the result of every other job as they were.
C32_JobsIsolated ==
    /\ [](/\ \A j \in DOMAIN gens : gens[j].req = j /\ j \in DOMAIN jobStatus
          /\ \A j \in DOMAIN jobResult : jobResult[j].by = j)
    /\ [][\A j \in DOMAIN gens :
              gens'[j] # gens[j] => \A i \in 1..MaxRequests : i # j => JobUntouched(i)]_vars

\* Two jobs for the same descriptor, neither served from the cache, are at
\* work at the same time: the invocation of one has failed and the other is
\* about to store its result.
C32_Witness ==
    \E i \in DOMAIN gens, j \in DOMAIN gens :
        /\ i # j
        /\ jobStatus[i].params.cache_key = jobStatus[j].params.cache_key
        /\ jobStatus[i].params.cache_key \notin DOMAIN cache
        /\ gens[i].pc = "failed"
        /\ gens[j].pc = "store_job_result"

\* C33 (failed jobs carry their error): a job record that says 'failed'
\* holds an error field with a message, the one of the exception that ended
\* the job's invocation; a record that says 'completed' holds no error field.
C33_FailedJobsCarryError ==
    /\ [](\A j \in DOMAIN jobStatus :
              /\ jobStatus[j].status = "failed" =>
                     "error" \in jobStatus[j].keys /\ jobStatus[j].error # ""
              /\ jobStatus[j].status = "completed" =>
                     "error" \notin jobStatus[j].keys /\ jobStatus[j].error = "")
    /\ [][\A j \in DOMAIN jobStatus :
              (jobStatus[j].status # "failed" /\ jobStatus'[j].status = "failed") =>
                  /\ gens[j].pc = "failed"
                  /\ jobStatus'[j].error = gens[j].error]_vars

\* One job has failed and its record, rewritten after a failed read, holds
\* the error without the params; another job has completed.
C33_Witness ==
    \E i \in DOMAIN jobStatus, j \in DOMAIN jobStatus :
        /\ jobStatus[i].status = "failed"
        /\ jobStatus[i].keys = {"status", "updated_at", "error"}
        /\ jobStatus[j].status = "completed"

====
